---- MODULE Spec2Model ----
(***************************************************************************)
(* Session memory (memory/memory_manager.py), the router (main.py) and the *)
(* three extraction strategies (agents/*.py) of the multi-format intake    *)
(* agent, as a state machine over the Redis keyspace.                      *)
(*                                                                         *)
(* One atomic step is one Redis command sent by one client, together with  *)
(* the local Python computation that follows it up to the next command.    *)
(* Time is an environment step (Tick) that also applies Redis key expiry.  *)
(***************************************************************************)
EXTENDS Integers, Sequences, FiniteSets, TLC

(***************************************************************************)
(* Bounds of the model.                                                    *)
(***************************************************************************)
MaxOps == 3
MaxTicks == 2
MaxSessions == 2

Clients == {"c1", "c2"}

\* The one client that calls when there is no concurrent caller.
Caller == "c1"

\* uuid4 values: an identifier is abstracted to a number; NoSuchId is an
\* identifier that create_session never returned.
SessionIds == 1..MaxSessions
NoSuchId == MaxSessions + 1
AllIds == SessionIds \cup {NoSuchId}

\* self.redis_client.expire(session_key, 86400)
SessionTtl == 86400
TickSeconds == SessionTtl \div 2

(***************************************************************************)
(* Python values.  Every value is a record with one field that names its   *)
(* type: str, ts (the str made by datetime.isoformat()), uuid (the str     *)
(* made by str(uuid.uuid4())), int, none, list, dict.                      *)
(***************************************************************************)
Str(s) == [str |-> s]
Ts(t) == [ts |-> t]
Uuid(i) == [uuid |-> i]
Int_(n) == [int |-> n]
PyNone == [none |-> TRUE]
List(q) == [list |-> q]
Dict(f) == [dict |-> f]
Bytes(b) == [bytes |-> b]
PyBool(b) == [bool |-> b]

EmptyFn == [x \in {} |-> PyNone]
EmptyDict == Dict(EmptyFn)
EmptyList == List(<<>>)

IsStr(v) == DOMAIN v \in {{"str"}, {"ts"}, {"uuid"}}
IsList(v) == DOMAIN v = {"list"}
IsDict(v) == DOMAIN v = {"dict"}

\* Python's truth value of a value.
Truthy(v) ==
    CASE DOMAIN v = {"none"} -> FALSE
      [] DOMAIN v = {"str"} -> v.str # ""
      [] DOMAIN v = {"bytes"} -> v.bytes # ""
      [] DOMAIN v = {"int"} -> v.int # 0
      [] DOMAIN v = {"bool"} -> v.bool
      [] IsDict(v) -> DOMAIN v.dict # {}
      [] IsList(v) -> Len(v.list) > 0
      [] OTHER -> TRUE

(***************************************************************************)
(* Methods of Python's str, on the characters of a string.                 *)
(***************************************************************************)
UpperCase == "ABCDEFGHIJKLMNOPQRSTUVWXYZ"
LowerCase == "abcdefghijklmnopqrstuvwxyz"
Whitespace == {" ", "\n", "\t", "\r"}

CharAt(s, i) == SubSeq(s, i, i)

\* s.startswith(prefix)
startswith(s, prefix) ==
    Len(prefix) <= Len(s) /\ SubSeq(s, 1, Len(prefix)) = prefix

\* s.endswith(suffix)
endswith(s, suffix) ==
    Len(suffix) <= Len(s) /\ SubSeq(s, Len(s) - Len(suffix) + 1, Len(s)) = suffix

\* word in s
contains(s, word) ==
    \E i \in 1..(Len(s) - Len(word) + 1) : SubSeq(s, i, i + Len(word) - 1) = word

lower_char(ch) ==
    IF \E i \in 1..Len(UpperCase) : CharAt(UpperCase, i) = ch
    THEN CharAt(LowerCase, CHOOSE i \in 1..Len(UpperCase) : CharAt(UpperCase, i) = ch)
    ELSE ch

RECURSIVE str_lower(_)
\* s.lower()
str_lower(s) ==
    IF s = "" THEN "" ELSE lower_char(CharAt(s, 1)) \o str_lower(SubSeq(s, 2, Len(s)))

RECURSIVE lstrip(_)
lstrip(s) ==
    IF s # "" /\ CharAt(s, 1) \in Whitespace THEN lstrip(SubSeq(s, 2, Len(s))) ELSE s

RECURSIVE rstrip(_)
rstrip(s) ==
    IF s # "" /\ CharAt(s, Len(s)) \in Whitespace THEN rstrip(SubSeq(s, 1, Len(s) - 1)) ELSE s

\* s.strip()
strip(s) == rstrip(lstrip(s))

\* s.split(sep)[-1], for a separator of one character: what follows the last
\* separator, and the whole of s when it holds none
split_last(s, sep) ==
    LET at == {i \in 1..Len(s) : CharAt(s, i) = sep}
    IN IF at = {} THEN s
       ELSE SubSeq(s, (CHOOSE i \in at : \A j \in at : j <= i) + 1, Len(s))

(***************************************************************************)
(* Redis string values.  A stored text is json.dumps(v) of a dict or list  *)
(* ([json |-> v]), or the characters of a Python str ([raw |-> s],         *)
(* [iso |-> t], [hex |-> i]).                                              *)
(***************************************************************************)
\* str(v) for a value that is neither dict nor list
py_str(v) ==
    CASE DOMAIN v = {"str"} -> [raw |-> v.str]
      [] DOMAIN v = {"ts"} -> [iso |-> v.ts]
      [] DOMAIN v = {"uuid"} -> [hex |-> v.uuid]
      [] DOMAIN v = {"int"} -> [raw |-> ToString(v.int)]
      [] DOMAIN v = {"none"} -> [raw |-> "None"]
      [] DOMAIN v = {"bool"} -> [raw |-> IF v.bool THEN "True" ELSE "False"]

\* json.dumps(v) if isinstance(v, (dict, list)) else str(v)
redis_encode(v) == IF IsDict(v) \/ IsList(v) THEN [json |-> v] ELSE py_str(v)

\* The strings of the model that are JSON documents on their own.
OrderJson == "{\"order_id\": 42}"
JsonLiterals == {"123", "null", OrderJson}

JsonLiteralValue(s) ==
    CASE s = "123" -> Int_(123)
      [] s = "null" -> PyNone
      [] s = OrderJson -> Dict([order_id |-> Int_(42)])

\* whether json.loads(text) succeeds
json_parses(text) ==
    \/ DOMAIN text = {"json"}
    \/ DOMAIN text = {"raw"} /\ text.raw \in JsonLiterals

\* json.loads(text), for a text that parses
json_loads(text) ==
    IF DOMAIN text = {"json"} THEN text.json ELSE JsonLiteralValue(text.raw)

\* get_session's per-field decoding: json.loads, and the raw str when that raises
redis_decode(text) ==
    IF json_parses(text) THEN json_loads(text)
    ELSE CASE DOMAIN text = {"raw"} -> Str(text.raw)
           [] DOMAIN text = {"iso"} -> Ts(text.iso)
           [] DOMAIN text = {"hex"} -> Uuid(text.hex)

encode_mapping(m) == [k \in DOMAIN m |-> redis_encode(m[k])]
decode_mapping(h) == [k \in DOMAIN h |-> redis_decode(h[k])]


(***************************************************************************)
(* State.                                                                  *)
(***************************************************************************)
VARIABLES
    hashes,          \* Redis hashes "session:<id>": id -> (field -> text); no key = no field
    expire_at,       \* Redis expiry per key: {} (no time to live) or {deadline}
    active_sessions, \* the Redis set "active_sessions"
    now,             \* wall clock, in seconds
    cl,              \* per client: the call in progress, its locals and its last return
    issued,          \* identifiers uuid4 has produced
    created,         \* history: id -> arguments and time of the create_session that returned it
    appended,        \* history: id -> the steps of the add_processing_step calls that returned True
    nops,            \* number of calls started
    nticks           \* number of clock steps taken

vars == <<hashes, expire_at, active_sessions, now, cl, issued, created, appended, nops, nticks>>

redis == <<hashes, expire_at, active_sessions>>

\* self.redis_client.exists(session_key)
redis_exists(id) == DOMAIN hashes[id] # {}

(***************************************************************************)
(* Return values of a call.                                                *)
(***************************************************************************)
RetNothing == [tag |-> "nothing"]
RetBool(b) == [tag |-> "bool", val |-> b]
RetId(i) == [tag |-> "id", val |-> i]
RetValue(v) == [tag |-> "value", val |-> v]
Raise(e) == [tag |-> "raise", val |-> e]

IsRaise(r) == r.tag = "raise"

\* raise HTTPException(status_code=..., detail=...): the response of a handler
HTTPException(status_code, detail) ==
    [tag |-> "http", status_code |-> status_code, detail |-> detail]

\* str(e) of an HTTPException made with keyword arguments: the installed
\* Starlette either defines __str__ as "<status_code>: <detail>", or leaves
\* Exception's, which prints the (empty) positional arguments
http_exception_str(e, has_str) ==
    IF has_str THEN ToString(e.status_code) \o ": " \o e.detail ELSE ""

NoArg == [nothing |-> TRUE]

IdleClient ==
    [pc |-> "idle", op |-> "idle", outer |-> "none", sid |-> NoSuchId, arg |-> NoArg,
     upd |-> EmptyFn, snap |-> EmptyFn, strat |-> NoArg, ret |-> RetNothing,
     call |-> [name |-> "none"], todo |-> <<>>, acc |-> <<>>]

(***************************************************************************)
(* create_session's session_data (memory_manager.py 24-35).                *)
(***************************************************************************)
CreateFields ==
    {"session_id", "source", "input_type", "intent", "created_at", "updated_at",
     "status", "processing_history", "extracted_data", "metadata"}

\* a session that starts in another status
session_data_pending(id, source, input_type, intent, timestamp) ==
    [session_id |-> Uuid(id),
     source |-> Str(source),
     input_type |-> Str(input_type),
     intent |-> Str(intent),
     created_at |-> Ts(timestamp),
     updated_at |-> Ts(timestamp),
     status |-> Str("pending"),
     processing_history |-> EmptyList,
     extracted_data |-> EmptyDict,
     metadata |-> EmptyDict]

session_data(id, source, input_type, intent, timestamp) ==
    [session_id |-> Uuid(id),
     source |-> Str(source),
     input_type |-> Str(input_type),
     intent |-> Str(intent),
     created_at |-> Ts(timestamp),
     updated_at |-> Ts(timestamp),
     status |-> Str("active"),
     processing_history |-> EmptyList,
     extracted_data |-> EmptyDict,
     metadata |-> EmptyDict]

\* get_session run with no other command in between: exists, hgetall, decode
get_session(h) ==
    IF DOMAIN h = {} THEN PyNone ELSE Dict(decode_mapping(h))

\* add_processing_step's processing_step (memory_manager.py 99-103)
processing_step(agent_name, timestamp, result) ==
    Dict([agent |-> Str(agent_name), timestamp |-> Ts(timestamp), result |-> result])


(***************************************************************************)
(* Inputs of the calls.                                                    *)
(***************************************************************************)
\* (source, input_type, intent) as main.py passes them to create_session
CreateInputs ==
    {[source |-> "123", input_type |-> "json", intent |-> "order_processing"]}

\* (agent_name, result) of a direct add_processing_step call
StepInputs ==
    {[agent_name |-> "JSONAgent", result |-> Dict([status |-> Str("success")])],
     [agent_name |-> "PDFAgent", result |-> Dict([status |-> Str("error")])]}

\* (data_key, data_value) of a direct store_extracted_data call
DataInputs ==
    {[data_key |-> "pdf_text", data_value |-> Str("v1")],
     [data_key |-> "pdf_text", data_value |-> Str("v2")]}

\* updates of a direct update_session call
UpdateInputs == {[status |-> Str("completed")]}

\* Identifiers a caller can pass: those create_session has returned, and one it has not.
Targets == DOMAIN created \cup {NoSuchId}

(***************************************************************************)
(* Control: a client is idle or inside one call.  op is the MemoryManager  *)
(* method running, pc its next Redis command, outer the strategy code the  *)
(* method returns into.                                                    *)
(***************************************************************************)
MayStart(c, serial) ==
    /\ cl[c].pc = "idle"
    /\ nops < MaxOps
    /\ serial => c = Caller

Called(c, name, sid, info) ==
    [IdleClient EXCEPT !.call = [name |-> name, sid |-> sid, info |-> info,
                                 pre |-> hashes[sid]],
                       !.sid = sid]

\* get_session(session_id) starts: its first command is exists
StartGet(r, op, arg) ==
    [r EXCEPT !.op = op, !.pc = "g_exists", !.arg = arg, !.snap = EmptyFn, !.upd = EmptyFn]

\* update_session(session_id, updates) starts: its first command is exists
StartUpdate(r, op, updates) ==
    [r EXCEPT !.op = op, !.pc = "u_exists", !.upd = updates]

\* The call is over: the client holds its return value (or exception) until it
\* goes back to idle.
ReturnToCaller(r, val) == [IdleClient EXCEPT !.pc = "done", !.ret = val, !.call = r.call]

\* JSONAgent.process, EmailParserAgent (json_agent.py 30-34): the error result
error_result(e, data_type) ==
    Dict([status |-> Str("error"), error |-> Str(e), data_type |-> Str(data_type)])

\* JSONAgent.process's except block (json_agent.py 29-36)
JsonExcept(r, e) ==
    StartGet([r EXCEPT !.outer = "json_except",
                       !.strat = [result |-> error_result(e, "json"), data |-> r.strat.data]],
             "add_processing_step",
             [agent_name |-> "JSONAgent", result |-> error_result(e, "json")])

\* The MemoryManager method r.op is over with val (a return or a raise): the
\* code that called it goes on to its next Redis command, or returns.
Finish(r, val) ==
    CASE r.outer = "none" -> ReturnToCaller(r, val)
      [] r.outer = "json_try_step" ->
            \* json_agent.py 24-25
            IF IsRaise(val) THEN JsonExcept(r, val.val)
            ELSE StartGet([r EXCEPT !.outer = "json_try_data"], "store_extracted_data",
                          [data_key |-> "json_data", data_value |-> r.strat.data])
      [] r.outer = "json_try_data" ->
            \* json_agent.py 25-27
            IF IsRaise(val) THEN JsonExcept(r, val.val)
            ELSE ReturnToCaller(r, RetValue(r.strat.result))
      [] r.outer = "json_except" ->
            \* json_agent.py 35-36
            IF IsRaise(val) THEN ReturnToCaller(r, val)
            ELSE ReturnToCaller(r, RetValue(r.strat.result))
      [] r.outer = "get_session_memory" ->
            \* main.py 145-151: the HTTPException raised in the try block is an
            \* Exception, and the except clause catches it
            IF IsRaise(val) THEN ReturnToCaller(r, HTTPException(500, val.val))
            ELSE IF ~Truthy(val.val)
                 THEN ReturnToCaller(r,
                        HTTPException(500,
                            http_exception_str(HTTPException(404, "Session not found"),
                                               r.strat.has_str)))
            ELSE ReturnToCaller(r, val)
      [] r.outer \in {"email", "pdf"} ->
            \* email_parser_agent.py 43-45, pdf_agent.py 38-40: result is the dict
            \* update_session has put updated_at into
            IF IsRaise(val) THEN ReturnToCaller(r, val)
            ELSE ReturnToCaller(r, RetValue(Dict(r.upd)))

\* the new step put first
history_prepend(history, step) == <<step>> \o history

\* session["processing_history"].append(processing_step)
history_append(history, step) == Append(history, step)

\* a write that keeps the value a key already has
dict_setdefault(d, data_key, data_value) == d @@ (data_key :> data_value)

\* session["extracted_data"][data_key] = data_value
dict_setitem(d, data_key, data_value) == (data_key :> data_value) @@ d

\* add_processing_step and store_extracted_data after their get_session
\* (memory_manager.py 96-109, 115-122); get_session's own return (71);
\* get_all_sessions' loop body and return (131-134)
AfterGet(r, session, timestamp) ==
    CASE r.op = "get_session" -> Finish(r, RetValue(session))
      [] r.op = "get_all_sessions" ->
            LET sessions == IF Truthy(session) THEN Append(r.acc, session) ELSE r.acc
                rest == Tail(r.todo)
            IN IF rest = <<>> THEN Finish(r, RetValue(List(sessions)))
               ELSE [r EXCEPT !.acc = sessions, !.todo = rest, !.sid = Head(rest),
                              !.pc = "g_exists"]
      [] r.op = "add_processing_step" ->
            IF ~Truthy(session) THEN Finish(r, RetBool(FALSE))
            ELSE IF "processing_history" \notin DOMAIN session.dict
                 THEN Finish(r, Raise("KeyError"))
            ELSE IF ~IsList(session.dict["processing_history"])
                 THEN Finish(r, Raise("AttributeError"))
            ELSE LET step == processing_step(r.arg.agent_name, timestamp, r.arg.result)
                 IN StartUpdate([r EXCEPT !.arg = [agent_name |-> r.arg.agent_name,
                                                   result |-> r.arg.result,
                                                   step |-> step]],
                                r.op,
                                [processing_history |->
                                    List(history_append(
                                        session.dict["processing_history"].list, step))])
      [] r.op = "store_extracted_data" ->
            IF ~Truthy(session) THEN Finish(r, RetBool(FALSE))
            ELSE IF "extracted_data" \notin DOMAIN session.dict
                 THEN Finish(r, Raise("KeyError"))
            ELSE IF ~IsDict(session.dict["extracted_data"])
                 THEN Finish(r, Raise("TypeError"))
            ELSE StartUpdate(r, r.op,
                    [extracted_data |->
                        Dict(dict_setitem(session.dict["extracted_data"].dict,
                                          r.arg.data_key, r.arg.data_value))])

(***************************************************************************)
(* create_session (memory_manager.py 19-50).                               *)
(***************************************************************************)
\* str(uuid.uuid4()): an identifier no earlier call has produced
uuid4 == SessionIds \ issued

call_create_session(c, serial) ==
    /\ MayStart(c, serial)
    /\ \E inp \in CreateInputs : \E id \in uuid4 :
          /\ cl' = [cl EXCEPT ![c] =
                [Called(c, "create_session", id, inp) EXCEPT
                    !.op = "create_session", !.pc = "c_hset",
                    !.arg = [source |-> inp.source, input_type |-> inp.input_type,
                             intent |-> inp.intent, timestamp |-> now]]]
          /\ issued' = issued \cup {id}
    /\ nops' = nops + 1
    /\ UNCHANGED <<hashes, expire_at, active_sessions, now, created, appended, nticks>>

\* self.redis_client.hset(session_key, mapping={...})
create_session_hset(c) ==
    LET r == cl[c] IN
    /\ r.pc = "c_hset"
    /\ hashes' = [hashes EXCEPT ![r.sid] =
            encode_mapping(session_data(r.sid, r.arg.source, r.arg.input_type,
                                        r.arg.intent, r.arg.timestamp)) @@ @]
    /\ cl' = [cl EXCEPT ![c].pc = "c_sadd"]
    /\ UNCHANGED <<expire_at, active_sessions, now, issued, created, appended, nops, nticks>>

\* self.redis_client.sadd(self.sessions_key, session_id)
create_session_sadd(c) ==
    LET r == cl[c] IN
    /\ r.pc = "c_sadd"
    /\ active_sessions' = active_sessions \cup {r.sid}
    /\ cl' = [cl EXCEPT ![c].pc = "c_expire"]
    /\ UNCHANGED <<hashes, expire_at, now, issued, created, appended, nops, nticks>>

\* self.redis_client.expire(session_key, 86400); return session_id
create_session_expire(c) ==
    LET r == cl[c] IN
    /\ r.pc = "c_expire"
    /\ expire_at' = IF redis_exists(r.sid)
                    THEN [expire_at EXCEPT ![r.sid] = {now + SessionTtl}]
                    ELSE expire_at
    /\ created' = (r.sid :> [source |-> r.arg.source, input_type |-> r.arg.input_type,
                             intent |-> r.arg.intent, timestamp |-> r.arg.timestamp,
                             at |-> now]) @@ created
    /\ cl' = [cl EXCEPT ![c] = Finish(r, RetId(r.sid))]
    /\ UNCHANGED <<hashes, active_sessions, now, issued, appended, nops, nticks>>

(***************************************************************************)
(* get_session (memory_manager.py 52-71).                                  *)
(***************************************************************************)
call_get_session(c, serial) ==
    /\ MayStart(c, serial)
    /\ \E sid \in Targets :
          cl' = [cl EXCEPT ![c] = StartGet(Called(c, "get_session", sid, NoArg),
                                           "get_session", NoArg)]
    /\ nops' = nops + 1
    /\ UNCHANGED <<redis, now, issued, created, appended, nticks>>

\* if not self.redis_client.exists(session_key): return None
get_session_exists(c) ==
    LET r == cl[c] IN
    /\ r.pc = "g_exists"
    /\ cl' = [cl EXCEPT ![c] =
            IF redis_exists(r.sid) THEN [r EXCEPT !.pc = "g_hgetall"]
            ELSE AfterGet(r, PyNone, now)]
    /\ UNCHANGED <<redis, now, issued, created, appended, nops, nticks>>

\* raw_data = self.redis_client.hgetall(session_key), and the decoding loop
get_session_hgetall(c) ==
    LET r == cl[c] IN
    /\ r.pc = "g_hgetall"
    /\ cl' = [cl EXCEPT ![c] = AfterGet(r, Dict(decode_mapping(hashes[r.sid])), now)]
    /\ UNCHANGED <<redis, now, issued, created, appended, nops, nticks>>

\* GET /memory/{session_id} (main.py 142-151) starts: get_session(session_id)
call_get_session_memory(c, serial) ==
    /\ MayStart(c, serial)
    /\ \E sid \in Targets : \E has_str \in BOOLEAN :
          cl' = [cl EXCEPT ![c] =
                    StartGet([Called(c, "get_session_memory", sid, [has_str |-> has_str])
                                 EXCEPT !.outer = "get_session_memory",
                                        !.strat = [has_str |-> has_str]],
                             "get_session", NoArg)]
    /\ nops' = nops + 1
    /\ UNCHANGED <<redis, now, issued, created, appended, nticks>>

(***************************************************************************)
(* update_session (memory_manager.py 73-90).                               *)
(***************************************************************************)
call_update_session(c, serial) ==
    /\ MayStart(c, serial)
    /\ \E sid \in Targets : \E u \in UpdateInputs :
          cl' = [cl EXCEPT ![c] = StartUpdate(Called(c, "update_session", sid, u),
                                              "update_session", u)]
    /\ nops' = nops + 1
    /\ UNCHANGED <<redis, now, issued, created, appended, nticks>>

\* an update_session that does not look whether the key exists
update_session_unchecked(c) ==
    /\ cl[c].pc = "u_exists"
    /\ cl' = [cl EXCEPT ![c].pc = "u_hset"]
    /\ UNCHANGED <<redis, now, issued, created, appended, nops, nticks>>

\* if not self.redis_client.exists(session_key): return False
update_session_exists(c) ==
    LET r == cl[c] IN
    /\ r.pc = "u_exists"
    /\ cl' = [cl EXCEPT ![c] =
            IF redis_exists(r.sid) THEN [r EXCEPT !.pc = "u_hset"]
            ELSE Finish(r, RetBool(FALSE))]
    /\ UNCHANGED <<redis, now, issued, created, appended, nops, nticks>>

\* updates["updated_at"] = datetime.now().isoformat()
with_updated_at(updates, timestamp) == ("updated_at" :> Ts(timestamp)) @@ updates

\* a write that leaves alone the fields the key already has
redis_hsetnx(h, mapping) == h @@ mapping

\* a write that replaces the whole hash by the fields given
redis_hset_replace(h, mapping) == mapping

\* HSET key field value ...: sets the fields given, keeps the others and the
\* key's time to live; creates the key, with no time to live, when it is absent
redis_hset(h, mapping) == mapping @@ h

\* self.redis_client.hset(session_key, mapping=redis_updates); return True
update_session_hset(c) ==
    LET r == cl[c]
        updates == with_updated_at(r.upd, now)
    IN
    /\ r.pc = "u_hset"
    /\ hashes' = [hashes EXCEPT ![r.sid] = redis_hset(@, encode_mapping(updates))]
    /\ appended' = IF r.op = "add_processing_step"
                   THEN [appended EXCEPT ![r.sid] = Append(@, r.arg.step)]
                   ELSE appended
    /\ cl' = [cl EXCEPT ![c] = Finish([r EXCEPT !.upd = updates], RetBool(TRUE))]
    /\ UNCHANGED <<expire_at, active_sessions, now, issued, created, nops, nticks>>

(***************************************************************************)
(* add_processing_step, store_extracted_data (memory_manager.py 92-122):   *)
(* a get_session, then an update_session.                                  *)
(***************************************************************************)
call_add_processing_step(c, serial) ==
    /\ MayStart(c, serial)
    /\ \E sid \in Targets : \E a \in StepInputs :
          cl' = [cl EXCEPT ![c] = StartGet(Called(c, "add_processing_step", sid, a),
                                           "add_processing_step", a)]
    /\ nops' = nops + 1
    /\ UNCHANGED <<redis, now, issued, created, appended, nticks>>

call_store_extracted_data(c, serial) ==
    /\ MayStart(c, serial)
    /\ \E sid \in Targets : \E a \in DataInputs :
          cl' = [cl EXCEPT ![c] = StartGet(Called(c, "store_extracted_data", sid, a),
                                           "store_extracted_data", a)]
    /\ nops' = nops + 1
    /\ UNCHANGED <<redis, now, issued, created, appended, nticks>>

(***************************************************************************)
(* delete_session (memory_manager.py 136-144).                             *)
(***************************************************************************)
call_delete_session(c, serial) ==
    /\ MayStart(c, serial)
    /\ \E sid \in Targets :
          cl' = [cl EXCEPT ![c] = [Called(c, "delete_session", sid, NoArg) EXCEPT
                                      !.op = "delete_session", !.pc = "d_srem"]]
    /\ nops' = nops + 1
    /\ UNCHANGED <<redis, now, issued, created, appended, nticks>>

\* self.redis_client.srem(self.sessions_key, session_id)
delete_session_srem(c) ==
    LET r == cl[c] IN
    /\ r.pc = "d_srem"
    /\ active_sessions' = active_sessions \ {r.sid}
    /\ cl' = [cl EXCEPT ![c].pc = "d_delete"]
    /\ UNCHANGED <<hashes, expire_at, now, issued, created, appended, nops, nticks>>

\* return bool(self.redis_client.delete(session_key))
delete_session_delete(c) ==
    LET r == cl[c] IN
    /\ r.pc = "d_delete"
    /\ hashes' = [hashes EXCEPT ![r.sid] = EmptyFn]
    /\ expire_at' = [expire_at EXCEPT ![r.sid] = {}]
    /\ cl' = [cl EXCEPT ![c] = Finish(r, RetBool(redis_exists(r.sid)))]
    /\ UNCHANGED <<active_sessions, now, issued, created, appended, nops, nticks>>

(***************************************************************************)
(* get_all_sessions (memory_manager.py 124-134): smembers, then one        *)
(* get_session per member.                                                 *)
(***************************************************************************)
\* the orders in which a Python set can be iterated
IterationOrders(S) ==
    {q \in [1..Cardinality(S) -> S] : \A i, j \in 1..Cardinality(S) : q[i] = q[j] => i = j}

call_get_all_sessions(c, serial) ==
    /\ MayStart(c, serial)
    /\ cl' = [cl EXCEPT ![c] = [Called(c, "get_all_sessions", NoSuchId, NoArg) EXCEPT
                                  !.op = "get_all_sessions", !.pc = "l_smembers"]]
    /\ nops' = nops + 1
    /\ UNCHANGED <<redis, now, issued, created, appended, nticks>>

\* session_ids = self.redis_client.smembers(self.sessions_key); sessions = []
get_all_sessions_smembers(c) ==
    LET r == cl[c] IN
    /\ r.pc = "l_smembers"
    /\ \E session_ids \in IterationOrders(active_sessions) :
          cl' = [cl EXCEPT ![c] =
                    IF session_ids = <<>> THEN Finish(r, RetValue(EmptyList))
                    ELSE [r EXCEPT !.todo = session_ids, !.sid = Head(session_ids),
                                   !.pc = "g_exists"]]
    /\ UNCHANGED <<redis, now, issued, created, appended, nops, nticks>>

(***************************************************************************)
(* cleanup_expired_sessions (memory_manager.py 146-153): smembers, then an *)
(* exists per member, and an srem for a member whose key is not there.     *)
(***************************************************************************)
call_cleanup_expired_sessions(c, serial) ==
    /\ MayStart(c, serial)
    /\ cl' = [cl EXCEPT ![c] = [Called(c, "cleanup_expired_sessions", NoSuchId, NoArg) EXCEPT
                                  !.op = "cleanup_expired_sessions", !.pc = "x_smembers"]]
    /\ nops' = nops + 1
    /\ UNCHANGED <<redis, now, issued, created, appended, nticks>>

\* for session_id in session_ids: the next member, or the end of the loop
cleanup_next(r) ==
    LET rest == Tail(r.todo)
    IN IF rest = <<>> THEN Finish(r, RetNothing)
       ELSE [r EXCEPT !.todo = rest, !.sid = Head(rest), !.pc = "x_exists"]

\* session_ids = self.redis_client.smembers(self.sessions_key)
cleanup_expired_sessions_smembers(c) ==
    LET r == cl[c] IN
    /\ r.pc = "x_smembers"
    /\ \E session_ids \in IterationOrders(active_sessions) :
          cl' = [cl EXCEPT ![c] =
                    IF session_ids = <<>> THEN Finish(r, RetNothing)
                    ELSE [r EXCEPT !.todo = session_ids, !.sid = Head(session_ids),
                                   !.pc = "x_exists"]]
    /\ UNCHANGED <<redis, now, issued, created, appended, nops, nticks>>

\* if not self.redis_client.exists(session_key):
cleanup_expired_sessions_exists(c) ==
    LET r == cl[c] IN
    /\ r.pc = "x_exists"
    /\ cl' = [cl EXCEPT ![c] =
            IF redis_exists(r.sid) THEN cleanup_next(r) ELSE [r EXCEPT !.pc = "x_srem"]]
    /\ UNCHANGED <<redis, now, issued, created, appended, nops, nticks>>

\* self.redis_client.srem(self.sessions_key, session_id)
cleanup_expired_sessions_srem(c) ==
    LET r == cl[c] IN
    /\ r.pc = "x_srem"
    /\ active_sessions' = active_sessions \ {r.sid}
    /\ cl' = [cl EXCEPT ![c] = cleanup_next(r)]
    /\ UNCHANGED <<hashes, expire_at, now, issued, created, appended, nops, nticks>>

(***************************************************************************)
(* Time: the clock advances, and Redis drops every key whose time to live  *)
(* has run out.                                                            *)
(***************************************************************************)
Expired(t) == {id \in AllIds : \E d \in expire_at[id] : d <= t}

\* Nothing reads the clock's absolute value: a step of the clock before any
\* key exists only shifts every later time, so the clock starts with the first key.
Tick ==
    /\ nticks < MaxTicks
    /\ \E id \in AllIds : redis_exists(id)
    /\ nticks' = nticks + 1
    /\ now' = now + TickSeconds
    /\ hashes' = [id \in AllIds |-> IF id \in Expired(now') THEN EmptyFn ELSE hashes[id]]
    /\ expire_at' = [id \in AllIds |-> IF id \in Expired(now') THEN {} ELSE expire_at[id]]
    /\ UNCHANGED <<active_sessions, cl, issued, created, appended, nops>>


(***************************************************************************)
(* The extraction strategies, up to their first Redis command.             *)
(***************************************************************************)
\* classification["format"] values, and content values, passed to route_to_agent
Formats == {"PDF", "json", "Email", "csv"}

PdfBytes == "%PDF-1.4"

Contents == {Str("From: a@b.com"), Str(OrderJson), Dict([order_id |-> Int_(42)])}

\* What the text-generation call gives: text that evaluates to the mapping
\* asked for ("object"), text that evaluates to another value ("array"), text
\* that does not evaluate ("invalid"), or no text: the call raises ("error")
LlmOutcomes == {"object", "array", "invalid", "error"}

\* The outcomes a routed run is tried with.  A failure is replaced by a
\* fallback dict, which session memory stores as it stores the object.
RoutedLlm == {"object", "array"}

\* classification["format"].lower()
lower(s) == str_lower(s)

\* list(data.keys())
KeysList(f) ==
    LET n == Cardinality(DOMAIN f)
        q == CHOOSE q \in [1..n -> DOMAIN f] : \A i, j \in 1..n : q[i] = q[j] => i = j
    IN [i \in 1..n |-> Str(q[i])]

\* JSONAgent.process's result (json_agent.py 15-21)
json_result(data) ==
    Dict([status |-> Str("success"),
          data_type |-> Str("json"),
          keys_found |-> List(IF IsDict(data) THEN KeysList(data.dict) ELSE <<>>),
          total_fields |-> Int_(IF IsDict(data) THEN Cardinality(DOMAIN data.dict) ELSE 0),
          processed_data |-> data])

\* email bodies and subjects EmailParserAgent.process is called with
BobEmail == "From: Bob <bob@x.org>\nSubject: Hi\n\nHello"
EmailBodies == {"From: a@b.com", BobEmail, "Hello, I need help"}
Subjects == {PyNone, Str(""), Str("Help")}

\* _parse_email_structure (email_parser_agent.py 47-63): what
\* Parser().parsestr(email_body) finds in the bodies of the model
parse_email_structure(email_body) ==
    LET parsed ==
          CASE email_body = "From: a@b.com" ->
                 [headers |-> ("From" :> Str("a@b.com")), from |-> "a@b.com",
                  subject |-> "", body |-> ""]
            [] email_body = BobEmail ->
                 [headers |-> ("From" :> Str("Bob <bob@x.org>")) @@ ("Subject" :> Str("Hi")),
                  from |-> "Bob <bob@x.org>", subject |-> "Hi", body |-> "Hello"]
            [] email_body = OrderJson ->
                 [headers |-> ("{\"order_id\"" :> Str("42}")), from |-> "",
                  subject |-> "", body |-> ""]
            [] OTHER ->
                 [headers |-> EmptyFn, from |-> "", subject |-> "", body |-> email_body]
    IN Dict([headers |-> Dict(parsed.headers),
             subject |-> Str(parsed.subject),
             from |-> Str(parsed.from),
             to |-> Str(""),
             date |-> Str(""),
             body |-> Str(parsed.body)])

\* re.search(r'[\w\.-]+@[\w\.-]+\.\w+', from_field): the match, '' without one
email_match(from_field) ==
    CASE from_field = "a@b.com" -> "a@b.com"
      [] from_field = "Bob <bob@x.org>" -> "bob@x.org"
      [] OTHER -> ""

\* _extract_sender_info (email_parser_agent.py 96-127)
extract_sender_info(email_body, parsed_email) ==
    LET from_field == parsed_email.dict["from"].str
        email_address == email_match(from_field)
        name == CASE from_field = "Bob <bob@x.org>" -> "Bob"
                  [] email_address = "a@b.com" -> "A"
                  [] OTHER -> "Unknown Sender"
        company == CASE email_address = "a@b.com" -> "B"
                     [] email_address = "bob@x.org" -> "X"
                     [] OTHER -> ""
    IN Dict([name |-> Str(name),
             email |-> Str(email_address),
             company |-> Str(company),
             full_from_field |-> Str(from_field)])

\* the analysis of the except branch (email_parser_agent.py 180-187)
DefaultAnalysis ==
    Dict([intent |-> Str("General Inquiry"),
          urgency |-> Str("Medium"),
          topics |-> List(<<Str("general")>>),
          required_action |-> Str("Review and respond"),
          sentiment |-> Str("Neutral"),
          confidence |-> Str("Low")])

\* EmailParserAgent._analyze_email_content (email_parser_agent.py 174-187):
\* eval(response) is returned whatever it is; the except branch is taken when
\* generate or eval raises
email_analysis(llm) ==
    CASE llm = "object" -> Dict([intent |-> Str("Support Request"), urgency |-> Str("High")])
      [] llm = "array" -> EmptyList
      [] llm \in {"invalid", "error"} -> DefaultAnalysis

\* dict.get(key, default)
dict_get(d, key, default) == IF key \in DOMAIN d.dict THEN d.dict[key] ELSE default

\* _create_crm_record (email_parser_agent.py 189-217), for an analysis that is a dict
create_crm_record(sender_info, analysis, subject, email_body, timestamp) ==
    Dict([contact |-> Dict([name |-> sender_info.dict["name"],
                            email |-> sender_info.dict["email"],
                            company |-> sender_info.dict["company"]]),
          interaction |->
              Dict([type |-> Str("email"),
                    subject |-> IF Truthy(subject) THEN subject ELSE Str("No Subject"),
                    intent |-> dict_get(analysis, "intent", Str("General")),
                    urgency |-> dict_get(analysis, "urgency", Str("Medium")),
                    sentiment |-> dict_get(analysis, "sentiment", Str("Neutral")),
                    topics |-> dict_get(analysis, "topics", EmptyList),
                    required_action |-> dict_get(analysis, "required_action", Str("Review")),
                    content_preview |-> Str(email_body),
                    timestamp |-> Ts(timestamp),
                    status |-> Str("new")]),
          metadata |->
              Dict([content_length |-> Int_(Len(email_body)),
                    has_attachments |-> PyBool(contains(str_lower(email_body), "attachment")),
                    language |-> Str("en"),
                    source |-> Str("email_parser_agent")])])

\* hashlib.md5(base_string.encode()).hexdigest()[:12], for the base strings of the model
md5_hexdigest_12(base_string) ==
    CASE base_string = "a@b.com_no_subject" -> "0872a2d187cc"
      [] base_string = "a@b.com_Help" -> "832c0b803ee7"
      [] base_string = "bob@x.org_no_subject" -> "7ce3c8ce72c5"
      [] base_string = "bob@x.org_Help" -> "c565bb1208fc"
      [] base_string = "_no_subject" -> "4ba4df8ed750"
      [] base_string = "_Help" -> "577e7fdf1aa9"
      [] base_string = "unknown_no_subject" -> "e2f5605cd881"
      [] base_string = "unknown_Help" -> "bb6235c2cb1c"

\* _generate_conversation_id (email_parser_agent.py 219-229)
generate_conversation_id(sender_info, subject) ==
    LET base_string == dict_get(sender_info, "email", Str("unknown")).str \o "_"
                          \o (IF Truthy(subject) THEN subject.str ELSE "no_subject")
    IN "conv_" \o md5_hexdigest_12(base_string)

\* EmailParserAgent.process's result (email_parser_agent.py 18-40)
email_result(email_body, subject, llm, timestamp) ==
    LET parsed_email == parse_email_structure(email_body)
        sender_info == extract_sender_info(email_body, parsed_email)
        analysis == email_analysis(llm)
    IN [agent |-> Str("email_parser_agent"),
        conversation_id |-> Str(generate_conversation_id(sender_info, subject)),
        sender_info |-> sender_info,
        analysis |-> analysis,
        crm_record |-> create_crm_record(sender_info, analysis, subject, email_body,
                                         timestamp),
        parsed_email |-> parsed_email,
        processed_at |-> Ts(timestamp)]

\* PDFAgent._extract_key_information (pdf_agent.py 222-230): json.loads of the
\* response, or _basic_extraction of a text that holds none of its patterns
pdf_extracted_data(llm) ==
    CASE llm = "object" -> Dict([title |-> Str("Invoice 7"), summary |-> Str("text")])
      [] llm = "array" -> EmptyList
      [] llm = "invalid" -> EmptyDict

\* PDFAgent.process's result (pdf_agent.py 28-35)
pdf_result(pdf_content, llm, timestamp) ==
    [agent |-> Str("pdf_agent"),
     document_classification |-> Dict([document_type |-> Str("Unknown")]),
     extracted_text |-> Str("--- Page 1 ---"),
     document_analysis |-> Dict([statistics |-> EmptyDict]),
     extracted_data |-> pdf_extracted_data(llm),
     processed_at |-> Ts(timestamp)]

(***************************************************************************)
(* EmailParserAgent.process (email_parser_agent.py 14-45), up to its       *)
(* update_session: a body that is no str fails in _parse_plain_text_email  *)
(* (email_body.strip()), an analysis that is no dict in _create_crm_record *)
(* (analysis.get), both with AttributeError.                               *)
(***************************************************************************)
email_process(r, email_body, subject, llm, timestamp) ==
    IF DOMAIN email_body # {"str"} \/ ~IsDict(email_analysis(llm))
    THEN ReturnToCaller(r, Raise("AttributeError"))
    ELSE StartUpdate([r EXCEPT !.outer = "email"], "update_session",
                     email_result(email_body.str, subject, llm, timestamp))

\* result = await email_agent.process(email_body, subject, session_id) (main.py 97)
call_email_process(c, serial) ==
    /\ MayStart(c, serial)
    /\ \E sid \in Targets : \E email_body \in EmailBodies : \E subject \in Subjects :
       \E llm \in LlmOutcomes :
          cl' = [cl EXCEPT ![c] =
                    email_process(Called(c, "email_process", sid,
                                         [email_body |-> email_body, subject |-> subject,
                                          llm |-> llm]),
                                  Str(email_body), subject, llm, now)]
    /\ nops' = nops + 1
    /\ UNCHANGED <<redis, now, issued, created, appended, nticks>>

(***************************************************************************)
(* route_to_agent (main.py 161-172).                                       *)
(***************************************************************************)
\* a router whose last branch is the PDF strategy
route_to_agent_default_pdf(r, format, content, llm, timestamp) ==
    StartUpdate([r EXCEPT !.outer = "pdf"], "update_session",
                pdf_result(content, llm, timestamp))

\* The client record after route_to_agent has run up to its first Redis
\* command, or to its end when it sends none.
route_to_agent(r, format, content, llm, timestamp) ==
    LET format_type == lower(format) IN
    CASE format_type = "pdf" ->
            StartUpdate([r EXCEPT !.outer = "pdf"], "update_session",
                        pdf_result(content, llm, timestamp))
      [] format_type = "json" ->
            \* json.loads(content) if isinstance(content, str) else content
            IF IsStr(content) /\ ~json_parses(py_str(content))
            THEN ReturnToCaller(r, Raise("JSONDecodeError"))
            ELSE LET data == IF IsStr(content) THEN json_loads(py_str(content)) ELSE content
                 IN StartGet([r EXCEPT !.outer = "json_try_step",
                                       !.strat = [result |-> json_result(data), data |-> data]],
                             "add_processing_step",
                             [agent_name |-> "JSONAgent", result |-> json_result(data)])
      [] format_type = "email" -> email_process(r, content, PyNone, llm, timestamp)
      [] OTHER -> ReturnToCaller(r, Raise("ValueError"))

call_route_to_agent(c, serial) ==
    /\ MayStart(c, serial)
    /\ \E sid \in Targets : \E format \in Formats :
       \E content \in IF lower(format) \in {"json", "email"} THEN Contents
                       ELSE {Str(PdfBytes)} :
       \E llm \in IF lower(format) \in {"pdf", "email"} THEN RoutedLlm ELSE {"object"} :
          cl' = [cl EXCEPT ![c] =
                    route_to_agent(Called(c, "route_to_agent", sid,
                                          [format |-> format, content |-> content, llm |-> llm]),
                                   format, content, llm, now)]
    /\ nops' = nops + 1
    /\ UNCHANGED <<redis, now, issued, created, appended, nticks>>

(***************************************************************************)
(* Python floats: IEEE 754 binary64, for positive normal numbers.  A float *)
(* is its exponent e and the bits m of its significand (53), first bit     *)
(* first: the number m[1].m[2]...m[53] (binary) times 2^e.  A literal is   *)
(* written as float.hex() prints it: the 13 hexadecimal digits after       *)
(* "0x1." and the exponent after "p".                                      *)
(***************************************************************************)
HexDigitBits(h) ==
    <<(h \div 8) % 2, (h \div 4) % 2, (h \div 2) % 2, h % 2>>

RECURSIVE HexBits(_)
HexBits(digits) ==
    IF digits = <<>> THEN <<>> ELSE HexDigitBits(Head(digits)) \o HexBits(Tail(digits))

Float(digits, e) == [e |-> e, m |-> <<1>> \o HexBits(digits)]

Zeros(n) == [i \in 1..n |-> 0]

\* the carry into bit i of a + b + carry (into the first bit's left, for i = 0):
\* some bit to the right makes a carry that every bit in between passes on
CarryInto(a, b, carry, i) ==
    \/ \E j \in (i + 1)..Len(a) :
          /\ a[j] = 1 /\ b[j] = 1
          /\ \A k \in (i + 1)..(j - 1) : a[k] + b[k] = 1
    \/ carry = 1 /\ \A k \in (i + 1)..Len(a) : a[k] + b[k] = 1

\* the sum of two numbers of as many bits, and a carry: one bit longer
AddBits(a, b, carry) ==
    [i \in 1..(Len(a) + 1) |->
        IF i = 1 THEN (IF CarryInto(a, b, carry, 0) THEN 1 ELSE 0)
        ELSE (a[i - 1] + b[i - 1] + (IF CarryInto(a, b, carry, i - 1) THEN 1 ELSE 0)) % 2]

\* bits as a number is less than bits of the same length
BitsLess(a, b) ==
    \E i \in 1..Len(a) : a[i] < b[i] /\ \A j \in 1..(i - 1) : a[j] = b[j]

\* x < y
float_lt(x, y) == x.e < y.e \/ (x.e = y.e /\ BitsLess(x.m, y.m))

\* x <= y
float_le(x, y) == ~float_lt(y, x)

\* The significand kept and the bits dropped, rounded to nearest, ties to even.
RoundToNearestEven(e, kept, dropped) ==
    LET half == dropped # <<>> /\ Head(dropped) = 1
        more == \E i \in 2..Len(dropped) : dropped[i] = 1
        up == half /\ (more \/ kept[Len(kept)] = 1)
        next == AddBits(kept, Zeros(Len(kept)), 1)
    IN IF ~up THEN [e |-> e, m |-> kept]
       ELSE IF Head(next) = 1 THEN [e |-> e + 1, m |-> SubSeq(next, 1, Len(kept))]
       ELSE [e |-> e, m |-> Tail(next)]

\* x + y
float_add(x, y) ==
    LET hi == IF float_lt(x, y) THEN y ELSE x
        lo == IF float_lt(x, y) THEN x ELSE y
        d == hi.e - lo.e
        sum == AddBits(hi.m \o Zeros(d), Zeros(d) \o lo.m, 0)
    IN IF Head(sum) = 1
       THEN RoundToNearestEven(hi.e + 1, SubSeq(sum, 1, Len(hi.m)),
                               SubSeq(sum, Len(hi.m) + 1, Len(sum)))
       ELSE RoundToNearestEven(hi.e, SubSeq(sum, 2, Len(hi.m) + 1),
                               SubSeq(sum, Len(hi.m) + 2, Len(sum)))

\* min(x, y)
float_min(x, y) == IF float_lt(y, x) THEN y ELSE x

(***************************************************************************)
(* ClassifierAgent (agents/classifier_agent.py).                           *)
(***************************************************************************)
PyFloat(x) == [float |-> x]

RECURSIVE py_repr(_)
RECURSIVE repr_items(_, _)
\* repr(v)
py_repr(v) ==
    CASE DOMAIN v = {"str"} -> "'" \o v.str \o "'"
      [] DOMAIN v = {"bytes"} -> "b'" \o v.bytes \o "'"
      [] DOMAIN v = {"int"} -> ToString(v.int)
      [] DOMAIN v = {"none"} -> "None"
      [] IsList(v) -> "[" \o repr_items(v.list, FALSE) \o "]"
      [] IsDict(v) ->
            LET keys == KeysList(v.dict)
            IN "{" \o repr_items([i \in 1..Len(keys) |->
                                     [key |-> keys[i], value |-> v.dict[keys[i].str]]],
                                 TRUE) \o "}"

\* the items of a list, or the key: value pairs of a dict, joined by ", "
repr_items(items, pairs) ==
    IF items = <<>> THEN ""
    ELSE LET first == IF pairs
                      THEN py_repr(Head(items).key) \o ": " \o py_repr(Head(items).value)
                      ELSE py_repr(Head(items))
         IN IF Len(items) = 1 THEN first
            ELSE first \o ", " \o repr_items(Tail(items), pairs)

\* str(v)
str_of(v) == IF DOMAIN v = {"str"} THEN v.str ELSE py_repr(v)

\* self.format_patterns (classifier_agent.py 8-15)
format_patterns ==
    [t \in {"application/pdf", "application/json", "text/json", "message/rfc822",
            "text/plain", "text/html"} |->
        CASE t = "application/pdf" -> "pdf"
          [] t \in {"application/json", "text/json"} -> "json"
          [] t = "message/rfc822" -> "email"
          [] t = "text/plain" -> "text"
          [] t = "text/html" -> "html"]

\* _is_json_string (classifier_agent.py 117-125)
is_json_string(content) ==
    DOMAIN content = {"str"} /\ json_parses(py_str(content))

\* _looks_like_email (classifier_agent.py 127-130)
looks_like_email(content) ==
    \E indicator \in {"from:", "to:", "subject:", "date:", "@"} :
        contains(str_lower(content), indicator)

\* a filename's extension with the letter case it is written in
extension_as_written(filename) == split_last(filename, ".")

\* extension = filename.lower().split('.')[-1]
extension_of(filename) == split_last(str_lower(filename), ".")

\* the format the filename's extension stands for, "" when it stands for none
\* (classifier_agent.py 52-61)
extension_format(extension) ==
    CASE extension = "pdf" -> "pdf"
      [] extension \in {"json", "jsonl"} -> "json"
      [] extension \in {"eml", "msg"} -> "email"
      [] extension \in {"txt", "text"} -> "text"
      [] extension \in {"html", "htm"} -> "html"
      [] OTHER -> ""

\* the format the content has by its structure (classifier_agent.py 63-76)
content_format(content) ==
    IF IsDict(content) \/ is_json_string(content) THEN "json"
    ELSE IF DOMAIN content = {"str"}
         THEN IF startswith(strip(content.str), "%PDF") THEN "pdf"
              ELSE IF looks_like_email(content.str) THEN "email"
              ELSE IF startswith(strip(content.str), "<html") THEN "html"
              ELSE "text"
    ELSE "unknown"

\* a classifier that asks the filename before the file type
determine_format_filename_first(content, file_type, filename) ==
    IF Truthy(filename) /\ extension_format(extension_of(filename.str)) # ""
    THEN extension_format(extension_of(filename.str))
    ELSE IF Truthy(file_type) /\ file_type.str \in DOMAIN format_patterns
    THEN format_patterns[file_type.str]
    ELSE content_format(content)

\* a classifier for which content it cannot place is text
determine_format_text_default(content, file_type, filename) ==
    IF Truthy(file_type) /\ file_type.str \in DOMAIN format_patterns
    THEN format_patterns[file_type.str]
    ELSE IF Truthy(filename) /\ extension_format(extension_of(filename.str)) # ""
    THEN extension_format(extension_of(filename.str))
    ELSE IF content_format(content) = "unknown" THEN "text"
    ELSE content_format(content)

\* _determine_format (classifier_agent.py 41-76)
determine_format(content, file_type, filename) ==
    IF Truthy(file_type) /\ file_type.str \in DOMAIN format_patterns
    THEN format_patterns[file_type.str]
    ELSE IF Truthy(filename) /\ extension_format(extension_of(filename.str)) # ""
    THEN extension_format(extension_of(filename.str))
    ELSE content_format(content)

\* any(word in content_str for word in words)
any_word_in(words, content_str) == \E word \in words : contains(content_str, word)

\* _determine_intent (classifier_agent.py 78-101)
determine_intent(content, format_type) ==
    LET content_str == str_lower(str_of(content)) IN
    IF any_word_in({"invoice", "bill", "payment", "charge"}, content_str)
    THEN "invoice_processing"
    ELSE IF any_word_in({"resume", "cv", "experience", "education"}, content_str)
    THEN "resume_parsing"
    ELSE IF any_word_in({"order", "purchase", "buy", "cart"}, content_str)
    THEN "order_processing"
    ELSE IF any_word_in({"support", "help", "issue", "problem"}, content_str)
    THEN "support_ticket"
    ELSE IF any_word_in({"application", "apply", "form"}, content_str)
    THEN "form_processing"
    ELSE IF format_type = "email" THEN "email_processing"
    ELSE IF format_type = "pdf" THEN "document_processing"
    ELSE "general_processing"

\* the float literals 0.7, 0.2, 0.1 and 1.0 (classifier_agent.py 105-115)
BaseConfidence == Float(<<6, 6, 6, 6, 6, 6, 6, 6, 6, 6, 6, 6, 6>>, -1)
FormatBoost == Float(<<9, 9, 9, 9, 9, 9, 9, 9, 9, 9, 9, 9, 10>>, -3)
IntentBoost == Float(<<9, 9, 9, 9, 9, 9, 9, 9, 9, 9, 9, 9, 10>>, -4)
One == Float(<<0, 0, 0, 0, 0, 0, 0, 0, 0, 0, 0, 0, 0>>, 0)

\* _calculate_confidence (classifier_agent.py 103-115)
calculate_confidence(content, format_type, intent) ==
    LET with_format == IF format_type \in {"pdf", "json", "email"}
                       THEN float_add(BaseConfidence, FormatBoost)
                       ELSE BaseConfidence
        with_intent == IF intent # "general_processing"
                       THEN float_add(with_format, IntentBoost)
                       ELSE with_format
    IN float_min(with_intent, One)

\* classify (classifier_agent.py 17-39)
classify(content, file_type, filename) ==
    LET format_type == determine_format(content, file_type, filename)
        intent == determine_intent(content, format_type)
        confidence == calculate_confidence(content, format_type, intent)
    IN Dict([format |-> Str(format_type),
             intent |-> Str(intent),
             confidence |-> PyFloat(confidence),
             metadata |-> Dict([file_type |-> file_type,
                                filename |-> filename,
                                content_length |->
                                    Int_(IF Truthy(content) THEN Len(str_of(content))
                                         ELSE 0)])])

\* content values, file-type hints and filename hints classify is called with
ClassifyContents ==
    {Str(OrderJson), Dict([order_id |-> Int_(42)]), Str("123"),
     Str(PdfBytes), Str("  %PDF-1.4 invoice"), Bytes(PdfBytes),
     Str("From: a@b.com"), Str("<html><p>hi</p></html>"), Str("<HTML>hi"),
     Str("hello world"), Str(""), PyNone, Int_(7), List(<<Str("order")>>)}

FileTypes ==
    {PyNone, Str("application/pdf"), Str("application/json"), Str("text/plain"),
     Str("image/png")}

Filenames ==
    {PyNone, Str("report.PDF"), Str("data.json"), Str("mail.eml"), Str("notes.txt"),
     Str("archive.tar.gz"), Str("README"), Str("pdf")}

call_classify(c) ==
    /\ MayStart(c, TRUE)
    /\ \E content \in ClassifyContents : \E file_type \in FileTypes :
       \E filename \in Filenames :
          cl' = [cl EXCEPT ![c] =
                    ReturnToCaller(Called(c, "classify", NoSuchId,
                                          [content |-> content, file_type |-> file_type,
                                           filename |-> filename]),
                                   RetValue(classify(content, file_type, filename)))]
    /\ nops' = nops + 1
    /\ UNCHANGED <<redis, now, issued, created, appended, nticks>>

(***************************************************************************)
(* The system.                                                             *)
(***************************************************************************)
Init ==
    /\ hashes = [id \in AllIds |-> EmptyFn]
    /\ expire_at = [id \in AllIds |-> {}]
    /\ active_sessions = {}
    /\ now = 0
    /\ cl = [c \in Clients |-> IdleClient]
    /\ issued = {}
    /\ created = EmptyFn
    /\ appended = [id \in AllIds |-> <<>>]
    /\ nops = 0
    /\ nticks = 0

\* The caller has taken the return value: the client is idle again.
call_returns(c) ==
    /\ cl[c].pc = "done"
    /\ cl' = [cl EXCEPT ![c] = IdleClient]
    /\ UNCHANGED <<redis, now, issued, created, appended, nops, nticks>>

Call(c, serial) ==
    \/ call_create_session(c, serial)
    \/ call_get_session(c, serial)
    \/ call_update_session(c, serial)
    \/ call_add_processing_step(c, serial)
    \/ call_store_extracted_data(c, serial)
    \/ call_delete_session(c, serial)
    \/ call_route_to_agent(c, serial)

Command(c) ==
    \/ create_session_hset(c)
    \/ create_session_sadd(c)
    \/ create_session_expire(c)
    \/ get_session_exists(c)
    \/ get_session_hgetall(c)
    \/ update_session_exists(c)
    \/ update_session_hset(c)
    \/ delete_session_srem(c)
    \/ delete_session_delete(c)
    \/ call_returns(c)

\* One caller: a call starts when the one before it has returned.  Time passes
\* (and keys expire) between the Redis commands of a call.
Next == (\E c \in Clients : Call(c, TRUE) \/ Command(c)) \/ Tick

Spec == Init /\ [][Next]_vars

\* One caller that also lists the sessions, among the calls that create
\* session keys, remove them, or write to them.
ListCall(c) ==
    \/ call_create_session(c, TRUE)
    \/ call_update_session(c, TRUE)
    \/ call_delete_session(c, TRUE)
    \/ call_get_all_sessions(c, TRUE)

ListNext ==
    \/ \E c \in Clients : ListCall(c) \/ Command(c) \/ get_all_sessions_smembers(c)
    \/ Tick

ListSpec == Init /\ [][ListNext]_vars

\* The email strategy as the /process/email handler runs it: a session is
\* created, then the strategy processes an email and stores its result.
EmailNext ==
    \E c \in Clients :
        \/ call_create_session(c, TRUE)
        \/ call_email_process(c, TRUE)
        \/ create_session_hset(c)
        \/ create_session_sadd(c)
        \/ create_session_expire(c)
        \/ update_session_exists(c)
        \/ update_session_hset(c)
        \/ call_returns(c)

EmailSpec == Init /\ [][EmailNext]_vars

\* The classifier alone: one caller that classifies.
ClassifyNext == \E c \in Clients : call_classify(c) \/ call_returns(c)

ClassifySpec == Init /\ [][ClassifyNext]_vars

\* Concurrent callers: the Redis commands of different calls interleave.  The
\* calls are those that read a session and write it back, and those that make
\* a session and take it away.
ConcCall(c) ==
    \/ call_create_session(c, FALSE)
    \/ call_add_processing_step(c, FALSE)
    \/ call_store_extracted_data(c, FALSE)
    \/ call_delete_session(c, FALSE)

ConcNext == (\E c \in Clients : ConcCall(c) \/ Command(c)) \/ Tick

ConcSpec == Init /\ [][ConcNext]_vars

\* Concurrent callers and the index: the calls that put an identifier into
\* active_sessions or take it out, and the calls that read and write a key.
IndexCall(c) ==
    \/ call_create_session(c, FALSE)
    \/ call_get_session(c, FALSE)
    \/ call_update_session(c, FALSE)
    \/ call_delete_session(c, FALSE)
    \/ call_cleanup_expired_sessions(c, FALSE)

IndexNext ==
    \/ \E c \in Clients :
          \/ IndexCall(c)
          \/ Command(c)
          \/ cleanup_expired_sessions_smembers(c)
          \/ cleanup_expired_sessions_exists(c)
          \/ cleanup_expired_sessions_srem(c)
    \/ Tick

IndexSpec == Init /\ [][IndexNext]_vars

\* One caller of the session read endpoint, among the calls that create
\* session keys, write to them and remove them.
MemoryCall(c) ==
    \/ call_create_session(c, TRUE)
    \/ call_update_session(c, TRUE)
    \/ call_delete_session(c, TRUE)
    \/ call_get_session_memory(c, TRUE)

MemoryNext == (\E c \in Clients : MemoryCall(c) \/ Command(c)) \/ Tick

MemorySpec == Init /\ [][MemoryNext]_vars


(***************************************************************************)
(* What the claims read.                                                   *)
(***************************************************************************)
\* client c takes a step
Steps(c) == cl'[c] # cl[c]

\* client c's call returns at this step
Returns(c, name) ==
    /\ cl[c].pc \notin {"idle", "done"}
    /\ cl'[c].pc = "done"
    /\ cl'[c].call.name = name

\* client c holds the return value of a call of name
Returned(c, name) == cl[c].pc = "done" /\ cl[c].call.name = name

HasField(h, f) == f \in DOMAIN h

\* the decoded processing_history (a list) and extracted_data of a hash
HistoryOf(h) == redis_decode(h["processing_history"]).list
DataOf(h) == redis_decode(h["extracted_data"])

(***************************************************************************)
(* C1: create_session returns an identifier that no earlier session has    *)
(* used, and a get_session on it with no other operation in between        *)
(* returns a session with status 'active', an empty processing_history and *)
(* an empty extracted_data.                                                *)
(***************************************************************************)
C1_FreshActiveSession ==
    [][\A c \in Clients :
         Returns(c, "create_session") =>
            LET id == cl'[c].ret.val
                s == get_session(hashes'[id])
            IN /\ cl'[c].ret.tag = "id"
               /\ id \notin DOMAIN created
               /\ cl'[c].call.pre = EmptyFn
               /\ IsDict(s)
               /\ s.dict["status"] = Str("active")
               /\ s.dict["processing_history"] = EmptyList
               /\ s.dict["extracted_data"] = EmptyDict]_vars

\* a second create_session has just returned, its session readable, while
\* the first session has a history by now
C1_Witness ==
    \E c \in Clients :
        /\ Returned(c, "create_session")
        /\ cl[c].ret.tag = "id"
        /\ Cardinality(DOMAIN created) = 2
        /\ IsDict(get_session(hashes[cl[c].ret.val]))
        /\ \E j \in DOMAIN created : j # cl[c].ret.val /\ Len(appended[j]) > 0


(***************************************************************************)
(* C2: add_processing_step is cumulative: on a live session with no        *)
(* concurrent writer, after N successful calls processing_history holds    *)
(* exactly the N steps, in call order (appended is the log of the          *)
(* successful calls, which only grows at its end).                         *)
(***************************************************************************)
C2_HistoryIsTheLogOfAppends ==
    \A id \in SessionIds :
        (redis_exists(id) /\ HasField(hashes[id], "processing_history"))
            => redis_decode(hashes[id]["processing_history"]) = List(appended[id])

\* two different steps have been appended and the second call has returned True
C2_Witness ==
    \E c \in Clients :
        /\ Returned(c, "add_processing_step")
        /\ cl[c].ret = RetBool(TRUE)
        /\ redis_exists(cl[c].call.sid)
        /\ Len(HistoryOf(hashes[cl[c].call.sid])) = 2
        /\ HistoryOf(hashes[cl[c].call.sid])[1] # HistoryOf(hashes[cl[c].call.sid])[2]

(***************************************************************************)
(* C3: a store_extracted_data(id, k, v) that returns True on a live        *)
(* session leaves extracted_data equal to what it was when the call began  *)
(* with k set to v: an earlier value of k is overwritten, every other key  *)
(* keeps its value.                                                        *)
(***************************************************************************)
C3_StoreOverwritesOneKey ==
    [][\A c \in Clients :
         (/\ Returns(c, "store_extracted_data")
          /\ cl'[c].ret = RetBool(TRUE)
          /\ HasField(cl'[c].call.pre, "extracted_data"))
         => LET id == cl'[c].call.sid
                a == cl'[c].call.info
            IN DataOf(hashes'[id])
                 = Dict((a.data_key :> a.data_value) @@ DataOf(cl'[c].call.pre).dict)]_vars

\* a store of v2 at a key that held v1 has returned True
C3_Witness ==
    \E c \in Clients :
        /\ Returned(c, "store_extracted_data")
        /\ cl[c].ret = RetBool(TRUE)
        /\ HasField(cl[c].call.pre, "extracted_data")
        /\ IsDict(DataOf(cl[c].call.pre))
        /\ cl[c].call.info.data_value = Str("v2")
        /\ cl[c].call.info.data_key \in DOMAIN DataOf(cl[c].call.pre).dict
        /\ DataOf(cl[c].call.pre).dict[cl[c].call.info.data_key] = Str("v1")
        /\ redis_exists(cl[c].call.sid)
        /\ DataOf(hashes[cl[c].call.sid]).dict[cl[c].call.info.data_key] = Str("v2")


(***************************************************************************)
(* C4: extracted_data is changed only by overlaying single keys: a key     *)
(* that is present stays present with its value until a write              *)
(* (store_extracted_data) to that same key, as long as the session is      *)
(* there.                                                                  *)
(***************************************************************************)
WritesKey(c, id, k) ==
    /\ cl[c].pc = "u_hset"
    /\ cl[c].op = "store_extracted_data"
    /\ cl[c].sid = id
    /\ cl[c].arg.data_key = k
    /\ Steps(c)

C4_KeysStayUntilWritten ==
    [][\A id \in SessionIds :
         (/\ HasField(hashes[id], "extracted_data")
          /\ HasField(hashes'[id], "extracted_data")
          /\ IsDict(DataOf(hashes[id])))
         => \A k \in DOMAIN DataOf(hashes[id]).dict :
               \/ /\ IsDict(DataOf(hashes'[id]))
                  /\ k \in DOMAIN DataOf(hashes'[id]).dict
                  /\ DataOf(hashes'[id]).dict[k] = DataOf(hashes[id]).dict[k]
               \/ \E c \in Clients : WritesKey(c, id, k)]_vars

(***************************************************************************)
(* C5: a session keeps the source, input_type and intent it was created    *)
(* with; only processing_history, extracted_data, status and updated_at    *)
(* ever change, and no field other than those create_session wrote ever    *)
(* appears in it.                                                          *)
(***************************************************************************)
MutableFields == {"processing_history", "extracted_data", "status", "updated_at"}

C5_OnlyCreationFields ==
    \A id \in DOMAIN created :
        LET at_creation == encode_mapping(session_data(id, created[id].source,
                               created[id].input_type, created[id].intent,
                               created[id].timestamp))
        IN /\ DOMAIN hashes[id] \subseteq CreateFields
           /\ \A f \in DOMAIN hashes[id] \cap (CreateFields \ MutableFields) :
                  hashes[id][f] = at_creation[f]

(***************************************************************************)
(* C6: every strategy run dispatched by route_to_agent on a live session   *)
(* leaves the session's processing_history one step longer than it was     *)
(* when the run began, the new step's result being the strategy's output.  *)
(***************************************************************************)
C6_RunAppendsOneStep ==
    \A c \in Clients :
        (/\ Returned(c, "route_to_agent")
         /\ cl[c].ret.tag = "value"
         /\ HasField(cl[c].call.pre, "processing_history")
         /\ HasField(hashes[cl[c].call.sid], "processing_history"))
        => LET before == HistoryOf(cl[c].call.pre)
               after == HistoryOf(hashes[cl[c].call.sid])
           IN /\ Len(after) = Len(before) + 1
              /\ SubSeq(after, 1, Len(before)) = before
              /\ after[Len(after)].dict["result"] = cl[c].ret.val

(***************************************************************************)
(* C7: content routed as format json that is not parseable JSON never      *)
(* leaves route_to_agent as an exception: the call returns a result with   *)
(* status=error, which a live session's processing_history then ends with. *)
(***************************************************************************)
C7_MalformedJsonIsAnErrorResult ==
    \A c \in Clients :
        (/\ Returned(c, "route_to_agent")
         /\ lower(cl[c].call.info.format) = "json"
         /\ IsStr(cl[c].call.info.content)
         /\ ~json_parses(py_str(cl[c].call.info.content)))
        => /\ cl[c].ret.tag = "value"
           /\ cl[c].ret.val.dict["status"] = Str("error")
           /\ (/\ HasField(cl[c].call.pre, "processing_history")
               /\ HasField(hashes[cl[c].call.sid], "processing_history"))
              => LET after == HistoryOf(hashes[cl[c].call.sid])
                 IN /\ Len(after) = Len(HistoryOf(cl[c].call.pre)) + 1
                    /\ after[Len(after)].dict["result"] = cl[c].ret.val

(***************************************************************************)
(* C8: route_to_agent called with a format that, lower-cased, is not pdf,  *)
(* json or email fails with the unsupported-format error (ValueError) at   *)
(* once: the call sends no Redis command, so every session and the index   *)
(* are as they were.                                                       *)
(***************************************************************************)
C8_UnsupportedFormatTouchesNothing ==
    [][\A c \in Clients :
         (/\ cl[c].pc = "idle"
          /\ Steps(c)
          /\ cl'[c].call.name = "route_to_agent"
          /\ lower(cl'[c].call.info.format) \notin {"pdf", "json", "email"})
         => /\ cl'[c].pc = "done"
            /\ cl'[c].ret = Raise("ValueError")
            /\ UNCHANGED redis]_vars

\* the unsupported call has failed on a session that is there, with a history
C8_Witness ==
    \E c \in Clients :
        /\ Returned(c, "route_to_agent")
        /\ cl[c].call.info.format = "csv"
        /\ cl[c].ret = Raise("ValueError")
        /\ cl[c].call.sid \in DOMAIN created
        /\ redis_exists(cl[c].call.sid)
        /\ Len(appended[cl[c].call.sid]) > 0

(***************************************************************************)
(* C9: update_session, add_processing_step and store_extracted_data called *)
(* on an identifier that has no stored session return False, and no step   *)
(* of the call changes a session, a time to live or the index.             *)
(***************************************************************************)
NotFoundOps == {"update_session", "add_processing_step", "store_extracted_data"}

C9_NotFoundReturnsFalse ==
    [][\A c \in Clients :
         (/\ cl[c].call.name \in NotFoundOps
          /\ cl[c].pc \notin {"idle", "done"}
          /\ cl[c].call.pre = EmptyFn
          /\ Steps(c))
         => /\ UNCHANGED redis
            /\ cl'[c].pc = "done"
            /\ cl'[c].ret = RetBool(FALSE)]_vars

\* update_session has returned False for a session that had expired before
\* the call, while another session is stored
C9_Witness ==
    \E c \in Clients :
        /\ Returned(c, "update_session")
        /\ cl[c].ret = RetBool(FALSE)
        /\ cl[c].call.pre = EmptyFn
        /\ cl[c].call.sid \in DOMAIN created
        /\ \E j \in DOMAIN created : j # cl[c].call.sid /\ redis_exists(j)

(***************************************************************************)
(* C10: a session expires 24 hours after its creation: while its key is    *)
(* there it carries that deadline, and once the deadline has passed        *)
(* get_session returns None for its identifier.                            *)
(***************************************************************************)
C10_ExpiresADayAfterCreation ==
    \A id \in DOMAIN created :
        /\ redis_exists(id) => expire_at[id] = {created[id].at + SessionTtl}
        /\ now >= created[id].at + SessionTtl => get_session(hashes[id]) = PyNone

(***************************************************************************)
(* C11: get_all_sessions never fails because of a vanished session, and    *)
(* returns only complete sessions: every session in the list it returns    *)
(* carries all the fields a session is created with; an indexed identifier *)
(* whose session has expired or was deleted is skipped.                    *)
(***************************************************************************)
C11_ListsOnlyCompleteSessions ==
    \A c \in Clients :
        Returned(c, "get_all_sessions")
        => /\ cl[c].ret.tag = "value"
           /\ \A i \in 1..Len(cl[c].ret.val.list) :
                 LET session == cl[c].ret.val.list[i]
                 IN /\ IsDict(session)
                    /\ CreateFields \subseteq DOMAIN session.dict

(***************************************************************************)
(* C12: add_processing_step and store_extracted_data are read-modify-write *)
(* and the last write wins: the write of a call stores the list (the map)  *)
(* that call read with its own step (key) added, whatever another writer   *)
(* has stored since the read, so that two appends that both read before    *)
(* either wrote both return True and leave the history one step longer.    *)
(***************************************************************************)
C12_LastWriteWins ==
    [][\A c \in Clients :
         (cl[c].pc = "u_hset" /\ Steps(c))
         => /\ cl[c].op = "add_processing_step"
               => hashes'[cl[c].sid]["processing_history"]
                     = redis_encode(cl[c].upd["processing_history"])
            /\ cl[c].op = "store_extracted_data"
               => hashes'[cl[c].sid]["extracted_data"]
                     = redis_encode(cl[c].upd["extracted_data"])]_vars

\* two appends to one live session have both returned True, and its history
\* is one step longer than when they were called: the other step is lost
C12_Witness ==
    \E c, d \in Clients :
        /\ c # d
        /\ Returned(c, "add_processing_step") /\ Returned(d, "add_processing_step")
        /\ cl[c].ret = RetBool(TRUE) /\ cl[d].ret = RetBool(TRUE)
        /\ cl[c].call.sid = cl[d].call.sid
        /\ cl[c].call.pre = cl[d].call.pre
        /\ HasField(cl[c].call.pre, "processing_history")
        /\ expire_at[cl[c].call.sid] # {}
        /\ Len(appended[cl[c].call.sid]) = Len(HistoryOf(cl[c].call.pre)) + 2
        /\ Len(HistoryOf(hashes[cl[c].call.sid])) = Len(HistoryOf(cl[c].call.pre)) + 1

(***************************************************************************)
(* What the classifier claims read: the arguments and the result of a      *)
(* classify call that has returned.                                        *)
(***************************************************************************)
Classified(c) == Returned(c, "classify") /\ cl[c].ret.tag = "value"

FormatOf(c) == cl[c].ret.val.dict["format"].str
IntentOf(c) == cl[c].ret.val.dict["intent"].str
ConfidenceOf(c) == cl[c].ret.val.dict["confidence"].float

\* the file-type hint is given and is in the fixed table
HintInTable(c) ==
    /\ DOMAIN cl[c].call.info.file_type = {"str"}
    /\ cl[c].call.info.file_type.str \in DOMAIN format_patterns

\* the filename hint is given and ends with one of the extensions of the table
ExtensionInTable(c) ==
    /\ DOMAIN cl[c].call.info.filename = {"str"}
    /\ cl[c].call.info.filename.str # ""
    /\ extension_format(extension_of(cl[c].call.info.filename.str)) # ""

IntentKeywords ==
    {"invoice", "bill", "payment", "charge", "resume", "cv", "experience", "education",
     "order", "purchase", "buy", "cart", "support", "help", "issue", "problem",
     "application", "apply", "form"}

(***************************************************************************)
(* C13: classify determines the format by strict precedence, first match   *)
(* wins: a file-type hint found in the fixed table decides; otherwise a    *)
(* filename extension found in the extension table decides; otherwise the  *)
(* content decides, in the order JSON (a mapping, or a string that parses  *)
(* as JSON), '%PDF' prefix, email markers, '<html' prefix, any other       *)
(* string text; content that is none of these and not a string is unknown. *)
(***************************************************************************)
C13_FormatPrecedence ==
    \A c \in Clients :
        Classified(c) =>
        LET content == cl[c].call.info.content
            is_string == DOMAIN content = {"str"}
            is_json == IsDict(content) \/ is_json_string(content)
            is_pdf == is_string /\ startswith(strip(content.str), "%PDF")
            is_email == is_string /\ looks_like_email(content.str)
            is_html == is_string /\ startswith(strip(content.str), "<html")
            sniffed == ~HintInTable(c) /\ ~ExtensionInTable(c)
        IN /\ HintInTable(c)
              => FormatOf(c) = format_patterns[cl[c].call.info.file_type.str]
           /\ (~HintInTable(c) /\ ExtensionInTable(c))
              => FormatOf(c) = extension_format(extension_of(cl[c].call.info.filename.str))
           /\ (sniffed /\ is_json) => FormatOf(c) = "json"
           /\ (sniffed /\ ~is_json /\ is_pdf) => FormatOf(c) = "pdf"
           /\ (sniffed /\ ~is_json /\ ~is_pdf /\ is_email) => FormatOf(c) = "email"
           /\ (sniffed /\ ~is_json /\ ~is_pdf /\ ~is_email /\ is_html)
              => FormatOf(c) = "html"
           /\ (sniffed /\ ~is_json /\ ~is_pdf /\ ~is_email /\ ~is_html /\ is_string)
              => FormatOf(c) = "text"
           /\ (sniffed /\ ~is_json /\ ~is_string) => FormatOf(c) = "unknown"

\* the three sources disagree and the file-type hint has decided: the hint
\* says text, the filename pdf, the content is JSON
C13_Witness ==
    \E c \in Clients :
        /\ Classified(c)
        /\ cl[c].call.info.file_type = Str("text/plain")
        /\ cl[c].call.info.filename = Str("report.PDF")
        /\ cl[c].call.info.content = Str(OrderJson)
        /\ FormatOf(c) = "text"

(***************************************************************************)
(* C14, as stated: for every classify call whose filename hint ends in     *)
(* '.pdf' in any letter case, the format is pdf, whatever the content.     *)
(***************************************************************************)
EndsInDotPdf(c) ==
    /\ DOMAIN cl[c].call.info.filename = {"str"}
    /\ endswith(str_lower(cl[c].call.info.filename.str), ".pdf")

C14_PdfFilenameAlwaysPdf ==
    \A c \in Clients : (Classified(c) /\ EndsInDotPdf(c)) => FormatOf(c) = "pdf"

(***************************************************************************)
(* C14, amended: for every classify call whose filename hint ends in       *)
(* '.pdf' in any letter case and whose file-type hint is absent, is not in *)
(* the fixed table, or stands for pdf there, the format is pdf, whatever   *)
(* the content.                                                            *)
(***************************************************************************)
C14_PdfFilenameWithoutOtherHint ==
    \A c \in Clients :
        (/\ Classified(c)
         /\ EndsInDotPdf(c)
         /\ HintInTable(c) => format_patterns[cl[c].call.info.file_type.str] = "pdf")
        => FormatOf(c) = "pdf"

\* report.PDF with a file type the table does not hold and a body that is
\* JSON has been classified as pdf
C14_Witness ==
    \E c \in Clients :
        /\ Classified(c)
        /\ cl[c].call.info.filename = Str("report.PDF")
        /\ cl[c].call.info.file_type = Str("image/png")
        /\ cl[c].call.info.content = Dict([order_id |-> Int_(42)])
        /\ FormatOf(c) = "pdf"

(***************************************************************************)
(* C15: for every classify result, confidence lies in [0.7, 1.0], and      *)
(* confidence equals 1.0 if and only if format is one of pdf, json, email  *)
(* and intent is not general_processing.                                   *)
(***************************************************************************)
C15_ConfidenceOneIffClear ==
    \A c \in Clients :
        Classified(c) =>
        /\ float_le(BaseConfidence, ConfidenceOf(c))
        /\ float_le(ConfidenceOf(c), One)
        /\ ConfidenceOf(c) = One
           <=> (FormatOf(c) \in {"pdf", "json", "email"}
                /\ IntentOf(c) # "general_processing")

(***************************************************************************)
(* C16: classify never fails: it returns a result for every content and    *)
(* every combination of hints, and for content that matches no format rule *)
(* and no intent keyword the result is format unknown and intent           *)
(* general_processing.                                                     *)
(***************************************************************************)
C16_ClassifyNeverFails ==
    \A c \in Clients :
        Returned(c, "classify") =>
        /\ cl[c].ret.tag = "value"
        /\ {"format", "intent", "confidence", "metadata"} \subseteq DOMAIN cl[c].ret.val.dict
        /\ (/\ ~HintInTable(c)
            /\ ~ExtensionInTable(c)
            /\ ~IsDict(cl[c].call.info.content)
            /\ DOMAIN cl[c].call.info.content # {"str"}
            /\ ~any_word_in(IntentKeywords, str_lower(str_of(cl[c].call.info.content))))
           => (FormatOf(c) = "unknown" /\ IntentOf(c) = "general_processing")

\* bytes that no rule places, with hints that decide nothing, have been
\* classified as unknown and general_processing
C16_Witness ==
    \E c \in Clients :
        /\ Classified(c)
        /\ cl[c].call.info.content = Bytes(PdfBytes)
        /\ cl[c].call.info.file_type = Str("image/png")
        /\ cl[c].call.info.filename = Str("README")
        /\ FormatOf(c) = "unknown"
        /\ IntentOf(c) = "general_processing"

(***************************************************************************)
(* C17: email content analysis falls back to the fixed default analysis    *)
(* whenever the text-generation call fails or its response is not the      *)
(* mapping asked for, and no such failure or response makes the email      *)
(* strategy raise.                                                         *)
(***************************************************************************)
C17_AnalysisFallsBack ==
    \A c \in Clients :
        (/\ Returned(c, "email_process")
         /\ cl[c].call.info.llm \in {"error", "invalid", "array"})
        => /\ cl[c].ret.tag = "value"
           /\ cl[c].ret.val.dict["analysis"] = DefaultAnalysis

(***************************************************************************)
(* C18: the conversation identifier is 'conv_' followed by the fixed-length *)
(* fingerprint of '<senderEmail>_<subject>', where a missing sender email  *)
(* is replaced by 'unknown' and a missing subject by 'no_subject'; equal   *)
(* (sender email, subject) pairs give equal identifiers.                   *)
(***************************************************************************)
C18_ConversationIdOfSenderAndSubject ==
    \A c \in Clients :
        (Returned(c, "email_process") /\ cl[c].ret.tag = "value")
        => LET result == cl[c].ret.val.dict
               sender_email == result["sender_info"].dict["email"].str
               subject == cl[c].call.info.subject
               base == (IF sender_email = "" THEN "unknown" ELSE sender_email) \o "_"
                          \o (IF Truthy(subject) THEN subject.str ELSE "no_subject")
           IN /\ result["conversation_id"].str = "conv_" \o md5_hexdigest_12(base)
              /\ Len(result["conversation_id"].str) = Len("conv_") + Len("0872a2d187cc")

(***************************************************************************)
(* C19: no resurrection: a session that has expired or was deleted is      *)
(* never re-created by update_session, add_processing_step or              *)
(* store_extracted_data, so the key of every session whose creation has    *)
(* completed, while it is in the store, carries all the creation fields    *)
(* and a time-to-live.                                                     *)
(***************************************************************************)
C19_NoResurrection ==
    \A id \in DOMAIN created :
        redis_exists(id) => /\ CreateFields \subseteq DOMAIN hashes[id]
                            /\ expire_at[id] # {}

(***************************************************************************)
(* C20: an add_processing_step and a store_extracted_data that run         *)
(* concurrently on the same live session never lose each other's update:   *)
(* each writes back only its own field (and updated_at), so once both have *)
(* returned True, processing_history contains the new step and             *)
(* extracted_data contains the new key with its value.                     *)
(***************************************************************************)
C20_BothUpdatesKept ==
    \A c, d \in Clients :
        (/\ c # d
         /\ Returned(c, "add_processing_step") /\ Returned(d, "store_extracted_data")
         /\ cl[c].ret = RetBool(TRUE) /\ cl[d].ret = RetBool(TRUE)
         /\ cl[c].call.sid = cl[d].call.sid
         /\ expire_at[cl[c].call.sid] # {})
        => LET h == hashes[cl[c].call.sid]
               step == cl[c].call.info
               item == cl[d].call.info
           IN /\ HasField(h, "processing_history") /\ HasField(h, "extracted_data")
              /\ \E i \in DOMAIN HistoryOf(h) :
                    /\ HistoryOf(h)[i].dict["agent"] = Str(step.agent_name)
                    /\ HistoryOf(h)[i].dict["result"] = step.result
              /\ item.data_key \in DOMAIN DataOf(h).dict
              /\ DataOf(h).dict[item.data_key] = item.data_value

\* both calls were made on the same state of the live session, so neither
\* began after the other's write, and both have returned True
C20_Witness ==
    \E c, d \in Clients :
        /\ c # d
        /\ Returned(c, "add_processing_step") /\ Returned(d, "store_extracted_data")
        /\ cl[c].ret = RetBool(TRUE) /\ cl[d].ret = RetBool(TRUE)
        /\ cl[c].call.sid = cl[d].call.sid
        /\ cl[c].call.pre = cl[d].call.pre
        /\ HasField(cl[c].call.pre, "processing_history")
        /\ expire_at[cl[c].call.sid] # {}
        /\ Len(HistoryOf(hashes[cl[c].call.sid])) = Len(HistoryOf(cl[c].call.pre)) + 1
        /\ DataOf(hashes[cl[c].call.sid]) # DataOf(cl[c].call.pre)

(***************************************************************************)
(* C21: every stored session is listed: in every state where no            *)
(* create_session and no delete_session call is part-way through, the      *)
(* identifier of every session key in the store is a member of the         *)
(* active_sessions index.                                                  *)
(***************************************************************************)
C21_EveryStoredSessionIsListed ==
    (\A c \in Clients : cl[c].op \notin {"create_session", "delete_session"})
    => \A id \in AllIds : redis_exists(id) => id \in active_sessions

(***************************************************************************)
(* C22: GET /memory/{session_id}, called with an identifier that has no    *)
(* stored session, responds with status 404 and detail 'Session not        *)
(* found'; called with the identifier of a session that is stored until    *)
(* the response, it responds with the session record.                      *)
(***************************************************************************)
C22_MissingSessionGives404 ==
    \A c \in Clients :
        Returned(c, "get_session_memory")
        => /\ cl[c].call.pre = EmptyFn
              => cl[c].ret = HTTPException(404, "Session not found")
           /\ (cl[c].call.pre # EmptyFn /\ hashes[cl[c].call.sid] = cl[c].call.pre)
              => cl[c].ret = RetValue(get_session(cl[c].call.pre))

====
